---- MODULE Spec2Model ----
(***************************************************************************)
(* Model of the 24x7 catalog parser (src/main.c): main() reads page 0,     *)
(* then reads and scans the schema, group and event tables in that order.  *)
(*                                                                         *)
(* Pointers into a table are modelled as byte offsets from the start of    *)
(* the table's buffer, so `end` is the table's byte length.  The bytes of  *)
(* the catalog are input: every field is drawn from a small set of values  *)
(* at the point where the code reads it, and a field the code did not read *)
(* in an iteration is NotRead.  The locals of one loop iteration (offset,  *)
(* the record's length, the validator's nl/dl/ldl, what was printed) are   *)
(* kept in `it` and go out of scope at the loop's i++.  it.name_len is the *)
(* name length word of the record under the cursor as it stands in the     *)
(* table, whether or not the validator came to read it (it.nl).            *)
(***************************************************************************)
EXTENDS Integers, Sequences, FiniteSets, TLC

(* ---------------- bounds of the model ---------------- *)
MaxPages == 1
MaxCount == 2

(* ---------------- program constants ---------------- *)
PAGE == 4096
\* 2^32 / PAGE: an unsigned product data_len * 4096 wraps at 2^32
U32Pages == 1048576
\* offsetof(struct hv_24x7_event_data, remainder)
EvFixed == 22
\* sizeof(struct hv_24x7_group_data), also offsetof(.., remainder)
GroupFixed == 50
\* sizeof(struct hv_24x7_grs), also offsetof(.., field_entrys)
SchemaFixed == 16
\* sizeof(struct hv_24x7_grs_field)
FieldSize == 8
HV_PERF_DOMAIN_PHYSICAL_CHIP == 1
HV_PERF_DOMAIN_PHYSICAL_CORE == 2
HV_PERF_DOMAIN_VIRTUAL_PROCESSOR_HOME_CORE == 3
HV_PERF_DOMAIN_VIRTUAL_PROCESSOR_HOME_CHIP == 4
HV_PERF_DOMAIN_VIRTUAL_PROCESSOR_HOME_NODE == 5
HV_PERF_DOMAIN_VIRTUAL_PROCESSOR_REMOTE_NODE == 6

NotRead == -1
Uninit == -2
\* exit status of a process killed by a signal, as the shell reports SIGABRT
Aborted == 134

(* ---------------- input values ---------------- *)
DebugLevels == {0, 5}
PageCounts == 0 .. MaxPages
EntryCounts == 0 .. MaxCount
SchemaLens == {0, 24, 32, PAGE - 32}
FecVals == {0, 1, 2, 509}
GroupLens == {0, 64, PAGE - 64}
EventLens == {0, 32, PAGE - 32}
EgrlVals == {0, 8}
NameLens == {1, 2, 16}
DescLens == {1, 2, 16}
LongDescLens == {1, 16}
DomainVals == {0, HV_PERF_DOMAIN_PHYSICAL_CHIP, HV_PERF_DOMAIN_PHYSICAL_CORE,
               HV_PERF_DOMAIN_VIRTUAL_PROCESSOR_HOME_CORE}
\* <<event_group_record_offs, event_counter_offs>>
OffsVals == {<<8, 848>>, <<65535, 65535>>}
GroupIxVals == (0 .. MaxCount) \cup {65535}

Max(a, b) == IF a >= b THEN a ELSE b

debug_is(debug_, lvl) == debug_ >= lvl

IS_ALIGNED(x, a) == x % a = 0

\* data_len * 4096 in unsigned (32 bit) arithmetic
pages_to_bytes(data_len) == (data_len % U32Pages) * PAGE

\* PTR_ALIGN rounds an address up to a multiple of a
PTR_ALIGN(p, a) == ((p + a - 1) \div a) * a

(* ---------------- domains ---------------- *)
is_physical_domain_m(domain) == domain = HV_PERF_DOMAIN_PHYSICAL_CHIP

is_physical_domain(domain) ==
    \/ domain = HV_PERF_DOMAIN_PHYSICAL_CHIP
    \/ domain = HV_PERF_DOMAIN_PHYSICAL_CORE

domain_to_index_string(domain) ==
    CASE domain = HV_PERF_DOMAIN_PHYSICAL_CHIP -> "chip"
      [] domain = HV_PERF_DOMAIN_PHYSICAL_CORE -> "core"
      [] domain \in HV_PERF_DOMAIN_VIRTUAL_PROCESSOR_HOME_CORE ..
                    HV_PERF_DOMAIN_VIRTUAL_PROCESSOR_REMOTE_NODE -> "vcpu"
      [] OTHER -> "unknown"

core_domains_m ==
    << HV_PERF_DOMAIN_PHYSICAL_CORE,
       HV_PERF_DOMAIN_VIRTUAL_PROCESSOR_HOME_CORE,
       HV_PERF_DOMAIN_VIRTUAL_PROCESSOR_HOME_CHIP,
       HV_PERF_DOMAIN_VIRTUAL_PROCESSOR_HOME_NODE >>

core_domains ==
    << HV_PERF_DOMAIN_PHYSICAL_CORE,
       HV_PERF_DOMAIN_VIRTUAL_PROCESSOR_HOME_CORE,
       HV_PERF_DOMAIN_VIRTUAL_PROCESSOR_HOME_CHIP,
       HV_PERF_DOMAIN_VIRTUAL_PROCESSOR_HOME_NODE,
       HV_PERF_DOMAIN_VIRTUAL_PROCESSOR_REMOTE_NODE >>

\* one "domain=..,offset=..,starting_index=..,lpar=.." line
print_event_fmt(egro, eco, domain) ==
    [domain |-> domain,
     offset |-> eco + egro,
     starting_index |-> domain_to_index_string(domain),
     lpar |-> IF is_physical_domain(domain) THEN "0x0" ELSE "sibling_guest_id"]

\* the lines that follow the name line of an event
print_event_for_all_domains(egro, eco, domain) ==
    CASE domain = HV_PERF_DOMAIN_PHYSICAL_CHIP ->
            << print_event_fmt(egro, eco, domain) >>
      [] domain = HV_PERF_DOMAIN_PHYSICAL_CORE ->
            [k \in 1 .. Len(core_domains) |->
                print_event_fmt(egro, eco, core_domains[k])]
      [] OTHER -> << >>

(* ---------------- string tails ---------------- *)
\* end offset (exclusive) of the name payload: remainder + (name_len - 2)
event_name_end(start, nl) == start + EvFixed + (nl - 2)
\* end offset of the description payload: remainder + nl + (desc_len - 2)
event_desc_end(start, nl, dl) == start + EvFixed + nl + (dl - 2)
\* end offset of the long description payload
event_long_desc_end(start, nl, dl, ldl) == start + EvFixed + nl + dl + (ldl - 2)
group_name_end(start, nl) == start + GroupFixed + (nl - 2)
group_desc_end(start, nl, dl) == start + GroupFixed + nl + (dl - 2)

(* ---------------- validators ---------------- *)
event_fixed_portion_is_within(start, end_) == start + EvFixed < end_
group_fixed_portion_is_within(start, end_) == start + GroupFixed < end_
schema_fixed_portion_is_within(start, end_) == start + SchemaFixed < end_

\* The validators return whether the record is within end_, which of the
\* length words they read (rd_dl, rd_ldl), one byte past the highest byte
\* they read (hi), and the alignment warnings they gave.

\* event_is_within without its name length check
event_is_within_m(start, end_, nl, dl, ldl) ==
    LET dl_ == start + EvFixed + nl - 2
        ldl_ == start + EvFixed + nl + dl - 2
        w1 == IF IS_ALIGNED(dl_, 2) THEN {} ELSE {"desc len not aligned"}
        w2 == IF IS_ALIGNED(ldl_, 2) THEN {} ELSE {"long desc len not aligned"}
        r0 == [ok |-> FALSE, rd_dl |-> FALSE, rd_ldl |-> FALSE,
               hi |-> start + EvFixed, warns |-> {}]
    IN  IF start + nl > end_ THEN r0
        ELSE IF dl < 2 THEN
            [r0 EXCEPT !.rd_dl = TRUE, !.hi = dl_ + 2, !.warns = w1]
        ELSE IF start + nl + dl > end_ THEN
            [r0 EXCEPT !.rd_dl = TRUE, !.hi = dl_ + 2, !.warns = w1]
        ELSE IF ldl < 2 THEN
            [r0 EXCEPT !.rd_dl = TRUE, !.rd_ldl = TRUE, !.hi = ldl_ + 2,
                       !.warns = w1 \cup w2]
        ELSE IF start + nl + dl + ldl > end_ THEN
            [r0 EXCEPT !.rd_dl = TRUE, !.rd_ldl = TRUE, !.hi = ldl_ + 2,
                       !.warns = w1 \cup w2]
        ELSE [ok |-> TRUE, rd_dl |-> TRUE, rd_ldl |-> TRUE, hi |-> ldl_ + 2,
              warns |-> w1 \cup w2]

event_is_within(start, end_, nl, dl, ldl) ==
    LET dl_ == start + EvFixed + nl - 2
        ldl_ == start + EvFixed + nl + dl - 2
        w1 == IF IS_ALIGNED(dl_, 2) THEN {} ELSE {"desc len not aligned"}
        w2 == IF IS_ALIGNED(ldl_, 2) THEN {} ELSE {"long desc len not aligned"}
        r0 == [ok |-> FALSE, rd_dl |-> FALSE, rd_ldl |-> FALSE,
               hi |-> start + EvFixed, warns |-> {}]
    IN  IF nl < 2 THEN r0
        ELSE IF start + nl > end_ THEN r0
        ELSE IF dl < 2 THEN
            [r0 EXCEPT !.rd_dl = TRUE, !.hi = dl_ + 2, !.warns = w1]
        ELSE IF start + nl + dl > end_ THEN
            [r0 EXCEPT !.rd_dl = TRUE, !.hi = dl_ + 2, !.warns = w1]
        ELSE IF ldl < 2 THEN
            [r0 EXCEPT !.rd_dl = TRUE, !.rd_ldl = TRUE, !.hi = ldl_ + 2,
                       !.warns = w1 \cup w2]
        ELSE IF start + nl + dl + ldl > end_ THEN
            [r0 EXCEPT !.rd_dl = TRUE, !.rd_ldl = TRUE, !.hi = ldl_ + 2,
                       !.warns = w1 \cup w2]
        ELSE [ok |-> TRUE, rd_dl |-> TRUE, rd_ldl |-> TRUE, hi |-> ldl_ + 2,
              warns |-> w1 \cup w2]

group_is_within(start, end_, nl, dl) ==
    LET dl_ == start + GroupFixed + nl - 2
        r0 == [ok |-> FALSE, rd_dl |-> FALSE, hi |-> start + GroupFixed]
    IN  IF nl < 2 THEN r0
        ELSE IF start + nl > end_ THEN r0
        ELSE IF dl < 2 THEN [r0 EXCEPT !.rd_dl = TRUE, !.hi = dl_ + 2]
        ELSE IF start + nl + dl > end_ THEN
            [r0 EXCEPT !.rd_dl = TRUE, !.hi = dl_ + 2]
        ELSE [ok |-> TRUE, rd_dl |-> TRUE, hi |-> dl_ + 2]

schema_is_within(start, end_, field_entry_count) ==
    LET field_entry_bytes == field_entry_count * FieldSize
    IN  IF field_entry_count = 0 THEN FALSE
        ELSE IF start + field_entry_bytes > end_ THEN FALSE
        ELSE TRUE

\* number of field entries print_schema prints
RECURSIVE print_schema_loop(_, _, _)
print_schema_loop(length, field_entry_count, k) ==
    LET offset == SchemaFixed + k * FieldSize
    IN  IF offset >= length THEN k
        ELSE IF k >= field_entry_count THEN k
        ELSE print_schema_loop(length, field_entry_count, k + 1)

print_schema(length, field_entry_count) ==
    LET n == print_schema_loop(length, field_entry_count, 0)
    IN  [fields |-> n,
         warns |-> IF n # field_entry_count
                   THEN {"schema ended before listed # of fields were parsed"}
                   ELSE {}]

(* ---------------- state ---------------- *)
VARIABLES
    pc,                 \* position of main()
    status,             \* exit status, NotRead while running
    debug,              \* the pr_debug verbosity level
    data_bytes,         \* schema_data_bytes / group_data_bytes / event_data_bytes
    alloc,              \* size passed to malloc for the current table
    base,               \* address of the current table's buffer, modulo PAGE
    entry_count,        \* declared entry count of the table being scanned
    group_entry_count,  \* group_entry_count, kept for print_event
    group_index,        \* group_index[0 .. group_entry_count-1], shifted by 1
    end,                \* the `end` pointer, as an offset into the table
    cursor,             \* the schema / group / event pointer, as an offset
    i,                  \* the loop counter shared by the three loops
    it,                 \* locals and output of the current loop iteration
    last_io,            \* outcome of the last operation on the input file
    loaded,             \* the tables whose buffer fread has filled in full
    runs                \* times the body of the current loop has been entered

vars == << pc, status, debug, data_bytes, alloc, base, entry_count,
           group_entry_count, group_index, end, cursor, i, it, last_io,
           loaded, runs >>

NoDump == [unknown |-> FALSE, group_ix |-> NotRead, slot |-> NotRead]

\* an iteration that has not read or printed anything
NoIter ==
    [start |-> NotRead, res |-> "none", len |-> NotRead, egrl |-> NotRead,
     name_len |-> NotRead, nl |-> NotRead, dl |-> NotRead, ldl |-> NotRead, fec |-> NotRead,
     domain |-> NotRead, egro |-> NotRead, eco |-> NotRead,
     hi |-> 0, warns |-> {}, comment |-> FALSE, missaligned |-> FALSE,
     name |-> FALSE, lines |-> << >>, verbose |-> FALSE, dump |-> NoDump,
     fields |-> NotRead,
     name_end |-> NotRead, desc_end |-> NotRead, long_desc_end |-> NotRead]

Init ==
    /\ pc = "start"
    /\ status = NotRead
    /\ debug \in DebugLevels
    /\ data_bytes = 0
    /\ alloc = 0
    /\ base = 0
    /\ entry_count = 0
    /\ group_entry_count = 0
    /\ group_index = << >>
    /\ end = 0
    /\ cursor = 0
    /\ i = 0
    /\ it = NoIter
    /\ last_io = "none"
    /\ loaded = {}
    /\ runs = 0

\* err(status, ...): the run ends with a non-zero status
Exit(st) ==
    /\ pc' = "exit"
    /\ status' = st

(* ---------------- main: arguments and page 0 ---------------- *)
\* Start with the result of the fread of page 0 ignored
Start_m ==
    /\ pc = "start"
    /\ \E in \in {"usage", "noopen", "short", "ok"} :
        /\ last_io' = in
        /\ CASE in = "usage" -> Exit(0)
             [] in = "noopen" -> Exit(1)
             [] OTHER -> pc' = "schema_read" /\ status' = status
    /\ UNCHANGED << debug, data_bytes, alloc, base, entry_count,
                    group_entry_count, group_index, end, cursor, i, it,
                    loaded, runs >>

Start ==
    /\ pc = "start"
    /\ \E in \in {"usage", "noopen", "short", "ok"} :
        /\ last_io' = in
        /\ CASE in = "usage" -> Exit(0)
             [] in = "noopen" -> Exit(1)
             [] in = "short" -> Exit(1)
             [] OTHER -> pc' = "schema_read" /\ status' = status
    /\ UNCHANGED << debug, data_bytes, alloc, base, entry_count,
                    group_entry_count, group_index, end, cursor, i, it,
                    loaded, runs >>

(* ---------------- schema ---------------- *)
\* ReadTable is the malloc, fseek and fread of one table; alloc_ is the size
\* given to malloc.  A read of 0 bytes cannot come up short.
\* An fread of more bytes than were allocated writes past the buffer: the
\* process may be killed in it, or in the next malloc, or go on unharmed.
\* ReadTable_m is ReadTable with the result of fread ignored: a short read
\* goes on to the scan of a buffer that was not filled.
ReadTable_m(table, next, data_len, count, alloc_, io) ==
    LET bytes == pages_to_bytes(data_len)
    IN  /\ io = "short" => bytes > 0
        /\ io = "crash" => (bytes > alloc_ \/ data_bytes > alloc)
        /\ data_bytes' = bytes
        /\ alloc' = alloc_
        /\ entry_count' = count
        /\ it' = NoIter
        /\ last_io' = io
        /\ runs' = 0
        /\ CASE io = "alloc" ->
                    Exit(1) /\ UNCHANGED << end, cursor, i, loaded >>
             [] io = "seek" ->
                    Exit(2) /\ UNCHANGED << end, cursor, i, loaded >>
             [] io = "crash" ->
                    Exit(Aborted) /\ UNCHANGED << end, cursor, i, loaded >>
             [] OTHER ->
                    /\ pc' = next
                    /\ status' = status
                    /\ loaded' = IF io = "short" THEN loaded
                                 ELSE loaded \cup {table}
                    /\ cursor' = 0
                    /\ end' = bytes
                    /\ i' = 0

ReadTable(table, next, data_len, count, alloc_, io) ==
    LET bytes == pages_to_bytes(data_len)
    IN  /\ io = "short" => bytes > 0
        /\ io = "crash" => (bytes > alloc_ \/ data_bytes > alloc)
        /\ data_bytes' = bytes
        /\ alloc' = alloc_
        /\ entry_count' = count
        /\ it' = NoIter
        /\ last_io' = io
        /\ runs' = 0
        /\ CASE io = "alloc" ->
                    Exit(1) /\ UNCHANGED << end, cursor, i, loaded >>
             [] io = "seek" ->
                    Exit(2) /\ UNCHANGED << end, cursor, i, loaded >>
             [] io = "crash" ->
                    Exit(Aborted) /\ UNCHANGED << end, cursor, i, loaded >>
             [] io = "short" ->
                    Exit(3) /\ UNCHANGED << end, cursor, i, loaded >>
             [] OTHER ->
                    /\ pc' = next
                    /\ status' = status
                    /\ loaded' = loaded \cup {table}
                    /\ cursor' = 0
                    /\ end' = bytes
                    /\ i' = 0

IoResults == {"ok", "alloc", "seek", "short", "crash"}

SchemaRead ==
    /\ pc = "schema_read"
    /\ \E schema_data_len \in PageCounts, schema_entry_count \in EntryCounts,
          io \in IoResults :
        ReadTable("schema", "schema_loop", schema_data_len, schema_entry_count,
                  pages_to_bytes(schema_data_len), io)
    /\ UNCHANGED << debug, base, group_entry_count, group_index >>

\* schema = (void *)schema + schema_len
next_schema(schema, schema_len) == schema + schema_len

\* one pass through the body of the schema loop
SchemaBody(schema, debug_, length, field_entry_count) ==
    LET r0 == [NoIter EXCEPT !.start = schema]
        r1 == [r0 EXCEPT !.len = length, !.hi = schema + 2,
                         !.comment = debug_is(debug_, 1),
                         !.missaligned = ~IS_ALIGNED(length, 16)]
        r2 == [r1 EXCEPT !.fec = field_entry_count,
                         !.hi = schema + SchemaFixed]
        schema_end == schema + length
        p == print_schema(length, field_entry_count)
    IN  IF ~schema_fixed_portion_is_within(schema, end) THEN
            [r0 EXCEPT !.res = "fixed",
                       !.warns = {"schema fixed portion is not within range"}]
        ELSE IF schema >= data_bytes THEN [r0 EXCEPT !.res = "end"]
        ELSE IF i >= entry_count THEN [r0 EXCEPT !.res = "count"]
        ELSE IF schema_end > end THEN
            [r1 EXCEPT !.res = "ends_after",
                       !.warns = {"schema ends after schema data"}]
        ELSE IF ~schema_is_within(schema, end, field_entry_count) THEN
            [r2 EXCEPT !.res = "exceeds_table",
                       !.warns = {"schema exceeds schema data length"}]
        ELSE IF ~schema_is_within(schema, schema_end, field_entry_count) THEN
            [r2 EXCEPT !.res = "exceeds_own",
                       !.warns = {"schema exceeds it's own length"}]
        ELSE IF debug_is(debug_, 1) THEN
            [r2 EXCEPT !.res = "accepted", !.verbose = TRUE,
                       !.fields = p.fields, !.warns = p.warns,
                       !.hi = schema + SchemaFixed + p.fields * FieldSize]
        ELSE [r2 EXCEPT !.res = "accepted"]

\* SchemaLoop with the rejection of a schema record made fatal, as err()
\* in place of warnx() and break would make it
SchemaLoop_m ==
    /\ pc = "schema_loop"
    /\ \E length \in SchemaLens, field_entry_count \in FecVals :
        LET r == SchemaBody(cursor, debug, length, field_entry_count)
        IN  /\ it' = r
            /\ IF r.res = "accepted"
               THEN /\ pc' = "schema_incr"
                    /\ cursor' = next_schema(cursor, length)
                    /\ status' = status
               ELSE IF r.warns # {}
               THEN Exit(1) /\ cursor' = cursor
               ELSE pc' = "group_read" /\ cursor' = cursor /\ status' = status
    /\ UNCHANGED << last_io, loaded, debug, data_bytes, alloc, base,
                    entry_count, group_entry_count, group_index, end, i >>
    /\ runs' = runs + 1

SchemaLoop ==
    /\ pc = "schema_loop"
    /\ \E length \in SchemaLens, field_entry_count \in FecVals :
        LET r == SchemaBody(cursor, debug, length, field_entry_count)
        IN  /\ it' = r
            /\ IF r.res = "accepted"
               THEN pc' = "schema_incr" /\ cursor' = next_schema(cursor, length)
               ELSE pc' = "group_read" /\ cursor' = cursor
    /\ UNCHANGED << last_io, loaded, status, debug, data_bytes, alloc, base,
                    entry_count, group_entry_count, group_index, end, i >>
    /\ runs' = runs + 1

\* the i++ of the schema loop; the body's locals go out of scope
SchemaIncr ==
    /\ pc = "schema_incr"
    /\ pc' = "schema_loop"
    /\ i' = i + 1
    /\ it' = NoIter
    /\ UNCHANGED << last_io, loaded, status, debug, data_bytes, alloc, base,
                    entry_count, group_entry_count, group_index, end, cursor,
                    runs >>

(* ---------------- groups ---------------- *)
GroupRead ==
    /\ pc = "group_read"
    /\ \E group_data_len \in PageCounts, count \in EntryCounts,
          io \in IoResults :
        /\ group_entry_count' = count
        /\ group_index' = IF io = "alloc" THEN group_index
                          ELSE [k \in 1 .. count |-> Uninit]
        /\ ReadTable("group", "group_loop", group_data_len, count,
                     group_data_len, io)
    /\ UNCHANGED << debug, base >>

\* group_index[i] = group
group_index_store_m(group_index_, i_, group) ==
    IF i_ >= 1 THEN [group_index_ EXCEPT ![i_] = group] ELSE group_index_

group_index_store(group_index_, i_, group) ==
    [group_index_ EXCEPT ![i_ + 1] = group]

\* next_group is group = (void *)group + group_len; next_group_m steps over
\* the fixed portion only
next_group_m(group, group_len) == group + GroupFixed

next_group(group, group_len) == group + group_len

\* one pass through the body of the group loop
GroupBody(group, debug_, length, nl, dl) ==
    LET r0 == [NoIter EXCEPT !.start = group]
        r1 == [r0 EXCEPT !.len = length, !.hi = group + 2, !.name_len = nl,
                         !.missaligned = ~IS_ALIGNED(length, 16)]
        group_end == group + length
        w1 == group_is_within(group, end, nl, dl)
        w2 == group_is_within(group, group_end, nl, dl)
        r2 == [r1 EXCEPT !.nl = nl, !.hi = w1.hi,
                         !.dl = IF w1.rd_dl THEN dl ELSE NotRead]
    IN  IF ~group_fixed_portion_is_within(group, end) THEN
            [r0 EXCEPT !.res = "fixed",
                       !.warns = {"group fixed portion is not within range"}]
        ELSE IF group >= data_bytes THEN [r0 EXCEPT !.res = "end"]
        ELSE IF i >= entry_count THEN [r0 EXCEPT !.res = "count"]
        ELSE IF group_end > end THEN
            [r1 EXCEPT !.res = "ends_after",
                       !.warns = {"group ends after group data"}]
        ELSE IF ~w1.ok THEN
            [r2 EXCEPT !.res = "exceeds_table",
                       !.warns = {"group exceeds group data length"}]
        ELSE IF ~w2.ok THEN
            [r2 EXCEPT !.res = "exceeds_own",
                       !.warns = {"group exceeds it's own length"}]
        ELSE IF debug_is(debug_, 1) THEN
            \* print_group: group_name and group_desc extract the strings
            [r2 EXCEPT !.res = "accepted", !.verbose = TRUE,
                       !.name_end = group_name_end(group, nl),
                       !.desc_end = group_desc_end(group, nl, dl),
                       !.hi = Max(w1.hi, group_desc_end(group, nl, dl))]
        ELSE [r2 EXCEPT !.res = "accepted"]

GroupLoop ==
    /\ pc = "group_loop"
    /\ \E length \in GroupLens, nl \in NameLens, dl \in DescLens :
        LET r == GroupBody(cursor, debug, length, nl, dl)
        IN  /\ it' = r
            /\ IF r.res = "accepted"
               THEN /\ pc' = "group_incr"
                    /\ group_index' = group_index_store(group_index, i, cursor)
                    /\ cursor' = next_group(cursor, length)
               ELSE /\ pc' = "event_read"
                    /\ UNCHANGED << group_index, cursor >>
    /\ UNCHANGED << last_io, loaded, status, debug, data_bytes, alloc, base,
                    entry_count, group_entry_count, end, i >>
    /\ runs' = runs + 1

GroupIncr ==
    /\ pc = "group_incr"
    /\ pc' = "group_loop"
    /\ i' = i + 1
    /\ it' = NoIter
    /\ UNCHANGED << last_io, loaded, status, debug, data_bytes, alloc, base,
                    entry_count, group_entry_count, group_index, end, cursor,
                    runs >>

(* ---------------- events ---------------- *)
BaseMods == {0, 16}

\* EventRead with the malloc of group_index placed with the event table's
\* allocation, after the group loop has filled the index
EventRead_m ==
    /\ pc = "event_read"
    /\ \E event_data_len \in PageCounts, event_entry_count \in EntryCounts,
          io \in IoResults :
        ReadTable("event", "event_loop", event_data_len, event_entry_count,
                  pages_to_bytes(event_data_len), io)
    /\ base' \in BaseMods
    /\ group_index' = [k \in 1 .. group_entry_count |-> Uninit]
    /\ UNCHANGED << debug, group_entry_count >>

EventRead ==
    /\ pc = "event_read"
    /\ \E event_data_len \in PageCounts, event_entry_count \in EntryCounts,
          io \in IoResults :
        ReadTable("event", "event_loop", event_data_len, event_entry_count,
                  pages_to_bytes(event_data_len), io)
    /\ base' \in BaseMods
    /\ UNCHANGED << debug, group_entry_count, group_index >>

\* next_event: event = (void *)event + ev_len
next_event_m(event, ev_len) == event + EvFixed

next_event(event, ev_len) == event + ev_len

\* the group name of the verbose dump
resolve_group_m(group_index_, group_count, group_ix) ==
    IF group_ix > group_count
    THEN [unknown |-> TRUE, group_ix |-> group_ix, slot |-> NotRead]
    ELSE [unknown |-> FALSE, group_ix |-> group_ix,
          slot |-> IF group_ix + 1 \in DOMAIN group_index_
                   THEN group_index_[group_ix + 1] ELSE Uninit]

resolve_group(group_index_, group_count, group_ix) ==
    IF group_ix >= group_count
    THEN [unknown |-> TRUE, group_ix |-> group_ix, slot |-> NotRead]
    ELSE [unknown |-> FALSE, group_ix |-> group_ix,
          slot |-> group_index_[group_ix + 1]]

\* print_event on a record the scan accepted
print_event(r, event, debug_, nl, dl, ldl, domain, egro, eco, pgi) ==
    LET r1 == [r EXCEPT !.name = TRUE, !.domain = domain,
                        !.egro = egro, !.eco = eco,
                        !.name_end = event_name_end(event, nl),
                        !.lines = print_event_for_all_domains(egro, eco, domain)]
    IN  IF ~debug_is(debug_, 5) THEN r1
        ELSE [r1 EXCEPT !.verbose = TRUE,
                        !.desc_end = event_desc_end(event, nl, dl),
                        !.long_desc_end = event_long_desc_end(event, nl, dl, ldl),
                        !.hi = Max(r.hi, event_long_desc_end(event, nl, dl, ldl)),
                        !.dump = resolve_group(group_index, group_entry_count, pgi)]

\* one pass through the body of the event loop, up to the call of print_event
EventBody(event, ev_len, egrl, nl, dl, ldl) ==
    LET r0 == [NoIter EXCEPT !.start = event]
        r1 == [r0 EXCEPT !.len = ev_len, !.egrl = egrl, !.name_len = nl,
                         !.hi = event + 10]
        r2 == [r1 EXCEPT !.comment = TRUE,
                         !.missaligned = ~IS_ALIGNED(ev_len, 16)]
        ev_end == event + ev_len
        w1 == event_is_within(event, end, nl, dl, ldl)
        w2 == event_is_within(event, ev_end, nl, dl, ldl)
        w3 == event_is_within(event, PTR_ALIGN(base + event, PAGE) - base,
                              nl, dl, ldl)
        r3 == [r2 EXCEPT !.nl = nl, !.hi = w1.hi,
                         !.dl = IF w1.rd_dl THEN dl ELSE NotRead,
                         !.ldl = IF w1.rd_ldl THEN ldl ELSE NotRead]
    IN  IF event >= data_bytes THEN [r0 EXCEPT !.res = "end"]
        ELSE IF i >= entry_count THEN [r0 EXCEPT !.res = "count"]
        ELSE IF ~event_fixed_portion_is_within(event, end) THEN
            [r0 EXCEPT !.res = "fixed",
                       !.warns = {"event fixed portion is not within range"}]
        ELSE IF egrl = 0 THEN [r1 EXCEPT !.res = "skipped"]
        ELSE IF ev_end > end THEN
            [r2 EXCEPT !.res = "ends_after",
                       !.warns = {"event ends after event data"}]
        ELSE IF ~w1.ok THEN
            [r3 EXCEPT !.res = "exceeds_table",
                       !.warns = w1.warns \cup
                                 {"event exceeds event data length"}]
        ELSE IF ~w2.ok THEN
            [r3 EXCEPT !.res = "exceeds_own",
                       !.warns = w1.warns \cup
                                 {"event exceeds it's own length"}]
        ELSE [r3 EXCEPT !.res = "accepted",
                        !.warns = w1.warns \cup
                            (IF w3.ok THEN {}
                             ELSE {"event crosses page boundary"})]

\* The fields that only print_event reads are drawn when it is called;
\* primary_group_ix is read in verbose mode only.
EventLoop ==
    /\ pc = "event_loop"
    /\ \E ev_len \in EventLens, egrl \in EgrlVals, nl \in NameLens,
          dl \in DescLens, ldl \in LongDescLens :
        LET r == EventBody(cursor, ev_len, egrl, nl, dl, ldl)
        IN  CASE r.res = "accepted" ->
                    /\ \E domain \in DomainVals, offs \in OffsVals,
                          pgi \in IF debug_is(debug, 5) THEN GroupIxVals
                                  ELSE {NotRead} :
                          it' = print_event(r, cursor, debug, nl, dl, ldl,
                                            domain, offs[1], offs[2], pgi)
                    /\ pc' = "event_incr"
                    /\ cursor' = next_event(cursor, ev_len)
              [] r.res = "skipped" ->
                    /\ it' = r
                    /\ pc' = "event_incr"
                    /\ cursor' = next_event(cursor, ev_len)
              [] OTHER ->
                    /\ it' = r
                    /\ pc' = "event_count"
                    /\ cursor' = cursor
    /\ UNCHANGED << last_io, loaded, status, debug, data_bytes, alloc, base,
                    entry_count, group_entry_count, group_index, end, i >>
    /\ runs' = runs + 1

\* EventIncr is the i++ of the event loop, which the goto next_event of a
\* placeholder reaches as well; the body's locals go out of scope.
\* EventIncr_m leaves i alone after a skipped placeholder, as a jump back
\* to the top of the loop body would.
EventIncr_m ==
    /\ pc = "event_incr"
    /\ pc' = "event_loop"
    /\ i' = IF it.res = "skipped" THEN i ELSE i + 1
    /\ it' = NoIter
    /\ UNCHANGED << last_io, loaded, status, debug, data_bytes, alloc, base,
                    entry_count, group_entry_count, group_index, end, cursor,
                    runs >>

EventIncr ==
    /\ pc = "event_incr"
    /\ pc' = "event_loop"
    /\ i' = i + 1
    /\ it' = NoIter
    /\ UNCHANGED << last_io, loaded, status, debug, data_bytes, alloc, base,
                    entry_count, group_entry_count, group_index, end, cursor,
                    runs >>

\* after the event loop: the count check, then return 0
EventCount ==
    /\ pc = "event_count"
    /\ it' = [it EXCEPT !.warns =
                IF i # entry_count
                THEN @ \cup {"event buffer ended before listed # of events were parsed"}
                ELSE @]
    /\ pc' = "exit"
    /\ status' = 0
    /\ UNCHANGED << last_io, loaded, debug, data_bytes, alloc, base, entry_count,
                    group_entry_count, group_index, end, cursor, i,
                    runs >>

Next ==
    \/ Start
    \/ SchemaRead
    \/ SchemaLoop
    \/ SchemaIncr
    \/ GroupRead
    \/ GroupLoop
    \/ GroupIncr
    \/ EventRead
    \/ EventLoop
    \/ EventIncr
    \/ EventCount

Spec == Init /\ [][Next]_vars

(* ---------------- properties ---------------- *)
InScan == it.start # NotRead
Printed == it.name \/ it.lines # << >> \/ it.verbose
Advanced == it.res \in {"accepted", "skipped"}
Extracted == {it.name_end, it.desc_end, it.long_desc_end} \ {NotRead}

\* C1: every byte an iteration of a table scan reads lies before the end of
\* the table: one past the highest byte read is at most `end`.
C1_ReadsInsideTable == it.hi <= end

\* C2: for an accepted record, every string tail that is extracted ends at
\* or before record start + declared length.
C2_TailsInsideRecord ==
    it.res = "accepted" => \A e \in Extracted : e <= it.start + it.len

\* C3: every record past which the cursor is advanced (placeholder events
\* included) has record start + declared length <= table end.
C3_AdvancedRecordInsideTable ==
    Advanced => it.start + it.len <= end

C5_PlaceholderSkipped ==
    [][ /\ (pc = "event_loop" /\ it'.egrl = 0) =>
            /\ it'.res = "skipped"
            /\ ~it'.name /\ it'.lines = << >> /\ ~it'.verbose
            /\ ~it'.comment
            /\ cursor' = cursor + it'.len
            /\ pc' = "event_incr"
        /\ (pc = "event_incr" /\ it.egrl = 0) =>
            /\ i' = i + 1
            /\ cursor' = cursor
            /\ pc' = "event_loop" ]_vars

C5_Witness ==
    /\ pc = "event_incr"
    /\ it.res = "skipped"
    /\ it.len = 32
    /\ cursor = it.start + 32

\* C6: in a verbose dump, a primary group index >= group_entry_count gives
\* the name UNKNOWN and the group index is not indexed.
C6_UnknownGroup ==
    (it.verbose /\ it.dump.group_ix # NotRead
        /\ it.dump.group_ix >= group_entry_count) =>
            /\ it.dump.unknown
            /\ it.dump.slot = NotRead

C6_Witness ==
    /\ it.verbose
    /\ group_entry_count = MaxCount
    /\ it.dump.group_ix = MaxCount
    /\ it.dump.unknown

\* C7: the group index has group_entry_count slots; the scan writes slot i
\* only for i < group_entry_count, only while the slot is unset, with the
\* record accepted at index i, and every accepted record is stored.
C7_GroupIndexWrites ==
    [][ /\ pc' \in {"group_loop", "group_incr", "event_read", "event_loop",
                    "event_incr", "event_count"}
            => Len(group_index') = group_entry_count'
        /\ \A k \in DOMAIN group_index' :
            (k \notin DOMAIN group_index \/ group_index'[k] # group_index[k]) =>
                \/ pc = "group_read" /\ group_index'[k] = Uninit
                \/ /\ pc = "group_loop"
                   /\ k = i + 1
                   /\ i < group_entry_count
                   /\ group_index[k] = Uninit
                   /\ it'.res = "accepted"
                   /\ group_index'[k] = it'.start
        /\ (pc = "group_loop" /\ it'.res = "accepted") =>
                /\ i + 1 \in DOMAIN group_index'
                /\ group_index'[i + 1] = it'.start ]_vars

C7_Witness ==
    /\ pc = "event_read"
    /\ group_entry_count = 2
    /\ group_index = << 0, 64 >>

\* C8: the number of domain lines after the name line is 1 for physical
\* chip, 5 for physical core (core, home core, home chip, home node, remote
\* node, in that order) and 0 for any other domain code.
C8_DomainLineCount ==
    it.name =>
        CASE it.domain = HV_PERF_DOMAIN_PHYSICAL_CHIP ->
                /\ Len(it.lines) = 1
                /\ it.lines[1].domain = HV_PERF_DOMAIN_PHYSICAL_CHIP
          [] it.domain = HV_PERF_DOMAIN_PHYSICAL_CORE ->
                /\ Len(it.lines) = 5
                /\ \A k \in 1 .. 5 : it.lines[k].domain = k + 1
          [] OTHER -> it.lines = << >>

C8_Witness ==
    /\ it.name
    /\ it.domain = HV_PERF_DOMAIN_PHYSICAL_CORE
    /\ Len(it.lines) = 5

\* C9: every domain line carries offset = event_group_record_offs +
\* event_counter_offs, and lpar is "0x0" exactly on the lines whose domain is
\* physical chip or physical core, "sibling_guest_id" on the others.
C9_OffsetAndLpar ==
    \A k \in DOMAIN it.lines :
        /\ it.lines[k].offset = it.egro + it.eco
        /\ it.lines[k].lpar =
            IF it.lines[k].domain \in {HV_PERF_DOMAIN_PHYSICAL_CHIP,
                                       HV_PERF_DOMAIN_PHYSICAL_CORE}
            THEN "0x0" ELSE "sibling_guest_id"
        /\ (it.domain = HV_PERF_DOMAIN_PHYSICAL_CORE) =>
                (it.lines[k].lpar = "0x0" <=> k = 1)

C9_Witness ==
    /\ Len(it.lines) = 5
    /\ it.egro = 65535 /\ it.eco = 65535
    /\ it.lines[1].lpar = "0x0"
    /\ it.lines[5].lpar = "sibling_guest_id"
    /\ it.lines[5].offset = 131070

\* C10: a scan that stops with i >= the declared entry count stops without
\* having given a warning.
C10_CountReachedSilently ==
    (InScan /\ pc \in {"group_read", "event_read", "event_count", "exit"}
        /\ i >= entry_count) => it.warns = {}

\* C11: when the first record of a table (offset 0, i = 0) has a length
\* field of 0, the scan stops at that record with a diagnostic: the record is
\* neither accepted nor stepped over, nothing of it is rendered, no
\* group_index slot is written and the loop does not go round again.
C11_ZeroLengthFirstRecordHalts ==
    (InScan /\ i = 0 /\ it.start = 0 /\ it.len = 0) =>
        /\ ~Advanced
        /\ it.warns # {}
        /\ ~Printed
        /\ pc \notin {"schema_incr", "group_incr", "event_incr"}
        /\ \A k \in DOMAIN group_index :
               pc \in {"group_loop", "group_incr", "event_read"} =>
                   group_index[k] = Uninit

\* C12: an accepted schema record holds all the field entries it declares:
\* the 16-byte fixed portion plus field_entry_count entries of 8 bytes fit in
\* the record's length, and the field entries that were rendered end inside
\* the record.
C12_SchemaFieldsInsideRecord ==
    (it.fec # NotRead /\ it.res = "accepted") =>
        /\ SchemaFixed + it.fec * FieldSize <= it.len
        /\ it.fields # NotRead =>
               SchemaFixed + it.fields * FieldSize <= it.len

\* the current record failed one of the bounds checks of its loop
Rejected ==
    InScan /\ it.res \in {"fixed", "ends_after", "exceeds_table", "exceeds_own"}

\* position of a control point in main, and the progress made at it: every
\* step of main moves forward in this order, which is bounded
Phase(p) ==
    CASE p = "start" -> 0
      [] p = "schema_read" -> 1
      [] p \in {"schema_loop", "schema_incr"} -> 2
      [] p = "group_read" -> 3
      [] p \in {"group_loop", "group_incr"} -> 4
      [] p = "event_read" -> 5
      [] p \in {"event_loop", "event_incr"} -> 6
      [] p = "event_count" -> 7
      [] OTHER -> 8
Turn(p, n) == 2 * n + (IF p \in {"schema_incr", "group_incr", "event_incr"}
                       THEN 1 ELSE 0)

\* C13: a record rejected in one table ends only that table's scan: from a
\* rejected schema record main goes on to read the group table, from a
\* rejected group record to read the event table, and from the event loop to
\* the count check and return 0.  Every step moves main forward, no state
\* before the exit is stuck and no loop runs past its entry count, so every
\* run terminates; it terminates with status 0 exactly when no operation on
\* the input file failed.
C13_RejectionIsNotFatal ==
    /\ [](pc = "exit" => (status = 0 <=> last_io \in {"ok", "usage"}))
    /\ [](pc # "exit" => ENABLED Next)
    /\ [](Phase(pc) \in {2, 4, 6} => Turn(pc, i) <= 2 * entry_count)
    /\ [][/\ pc = "schema_loop" =>
                 IF Rejected' THEN pc' = "group_read"
                 ELSE pc' \in {"schema_incr", "group_read"}
          /\ pc = "group_loop" =>
                 IF Rejected' THEN pc' = "event_read"
                 ELSE pc' \in {"group_incr", "event_read"}
          /\ pc = "event_loop" =>
                 IF Rejected' THEN pc' = "event_count"
                 ELSE pc' \in {"event_incr", "event_count"}
          /\ pc = "event_count" => pc' = "exit" /\ status' = 0
          /\ pc \in {"schema_read", "group_read", "event_read"} =>
                 IF last_io' = "ok" THEN Phase(pc') = Phase(pc) + 1
                 ELSE pc' = "exit"
          /\ \/ Phase(pc') > Phase(pc)
             \/ Phase(pc') = Phase(pc) /\ Turn(pc', i') > Turn(pc, i)]_vars

\* a group record was rejected and main is about to read the event table
C13_Witness ==
    /\ pc = "event_read"
    /\ Rejected
    /\ it.warns # {}
    /\ loaded = {"schema", "group"}

\* the scan of a table is over and what follows it in main has not begun
ScanOver ==
    /\ InScan
    /\ \/ pc \in {"group_read", "event_read"}
       \/ pc = "exit" /\ status = 0

\* C14: once the scan of a table is over, a count mismatch has been reported
\* exactly when the number of records processed differs from the table's
\* declared entry count, for the schema, the group and the event table alike.
C14_CountMismatchReported ==
    ScanOver =>
        (("event buffer ended before listed # of events were parsed"
              \in it.warns) <=> i # entry_count)

\* C15: main works through the tables in the order schema, group, event and
\* never goes back; group_index changes only while the group table is being
\* read or scanned, and an event's group is looked up in it only from the
\* event loop, that is after the group loop has ended.
C15_TableOrder ==
    [][/\ \/ Phase(pc') \in {Phase(pc), Phase(pc) + 1}
          \/ pc' = "exit"
       /\ group_index' # group_index => pc \in {"group_read", "group_loop"}
       /\ Phase(pc) >= 5 => group_index' = group_index
       /\ it'.dump # NoDump =>
              /\ Phase(pc') = 6
              /\ it'.dump = resolve_group(group_index, group_entry_count,
                                          it'.dump.group_ix)]_vars

\* an event was resolved through the slot the group scan had written
C15_Witness ==
    /\ pc = "event_incr"
    /\ it.dump # NoDump
    /\ ~it.dump.unknown
    /\ it.dump.slot = 64
    /\ group_index = << 0, 64 >>

\* C16 as stated: whenever a record of any table has been validated, all
\* three tables are in memory.
C16_AllTablesReadBeforeScan ==
    InScan => loaded = {"schema", "group", "event"}

\* C16: each table is in memory in full before its own scan begins, and the
\* tables are read one at a time: during the schema scan only the schema
\* table has been read, during the group scan the schema and group tables,
\* and the event table is read after the group scan.  A table is read by
\* the step just before its scan, and no step of a scan seeks or reads.
C16_EachTableReadBeforeItsScan ==
    /\ [](Phase(pc) = 2 => loaded = {"schema"})
    /\ [](Phase(pc) = 4 => loaded = {"schema", "group"})
    /\ [](Phase(pc) \in {6, 7} => loaded = {"schema", "group", "event"})
    /\ [][/\ loaded' # loaded =>
                 /\ pc \in {"schema_read", "group_read", "event_read"}
                 /\ Phase(pc') = Phase(pc) + 1
                 /\ last_io' = "ok"
                 /\ end' = data_bytes'
                 /\ it' = NoIter
          /\ Phase(pc) \in {2, 4, 6, 7} =>
                 /\ loaded' = loaded
                 /\ last_io' = last_io
                 /\ data_bytes' = data_bytes /\ end' = end]_vars

\* the schema scan is over after one accepted record and the group table
\* has not been read yet
C16_Witness ==
    /\ pc = "group_read"
    /\ InScan
    /\ i = 1
    /\ loaded = {"schema"}

\* C17: when page 0 or a table cannot be read in full, that step ends the
\* run with a non-zero exit status: no record of the table is scanned, the
\* table is not counted as read, and nothing runs after the exit, so no
\* later table is read or scanned either.
C17_ShortReadAborts ==
    /\ [](last_io = "short" =>
              /\ pc = "exit"
              /\ status \notin {0, NotRead}
              /\ it = NoIter
              /\ loaded \in {{}, {"schema"}, {"schema", "group"}})
    /\ [][/\ pc # "exit"
          /\ last_io' = "short" =>
                 /\ pc \in {"start", "schema_read", "group_read", "event_read"}
                 /\ loaded' = loaded]_vars

\* the read of the group table came up short after the schema scan
C17_Witness ==
    /\ last_io = "short"
    /\ pc = "exit"
    /\ status = 3
    /\ loaded = {"schema"}

\* the table the current record belongs to, and the checks of its loop
\* written out on the record's fields
ItTable ==
    IF pc \in {"schema_incr", "group_read"} THEN "schema"
    ELSE IF pc \in {"group_incr", "event_read"} THEN "group"
    ELSE "event"
FixedOK ==
    it.start + (CASE ItTable = "schema" -> SchemaFixed
                  [] ItTable = "group" -> GroupFixed
                  [] OTHER -> EvFixed) < end
LenOK == it.len # NotRead /\ it.start + it.len <= end
ChainOK(lim) ==
    CASE ItTable = "schema" ->
             it.fec >= 1 /\ it.start + it.fec * FieldSize <= lim
      [] ItTable = "group" ->
             it.nl >= 2 /\ it.dl >= 2 /\ it.start + it.nl + it.dl <= lim
      [] OTHER ->
             /\ it.nl >= 2 /\ it.dl >= 2 /\ it.ldl >= 2
             /\ it.start + it.nl + it.dl + it.ldl <= lim

C19_PageWarningOnlyWhenSpanning ==
    ("event crosses page boundary" \in it.warns) =>
        /\ it.res = "accepted"
        /\ it.name
        /\ pc = "event_incr"
        /\ (base + it.start) \div PAGE
               # (base + it.start + it.len - 1) \div PAGE

\* C20: whenever a table has been read, the bytes read into its buffer are
\* no more than the bytes allocated for it, and the size given to malloc is
\* the table's data_len * 4096, the byte count that is read and that gives
\* the table's end.
C20_ReadFitsAllocation ==
    (last_io = "ok" /\ Phase(pc) >= 2) =>
        /\ data_bytes <= alloc
        /\ alloc = data_bytes
        /\ Phase(pc) \in {2, 4, 6} => end = data_bytes

\* C21: when the verbose dump of an event looks its primary group up in
\* group_index (primary_group_ix < group_entry_count), the slot it reads
\* holds a group record that the group scan accepted and stored there.
C21_ResolvedSlotPopulated ==
    (it.verbose /\ it.dump.group_ix # NotRead /\ ~it.dump.unknown) =>
        /\ it.dump.group_ix < group_entry_count
        /\ it.dump.slot = group_index[it.dump.group_ix + 1]
        /\ it.dump.slot # Uninit
        /\ it.dump.slot >= 0

\* C22: the body of each scan loop is entered at most entry_count + 1 times
\* whatever the table holds: every entry that does not end the scan is
\* followed by i + 1, whether or not the cursor moved, and the entry made
\* with i = entry_count ends the scan.
C22_ScanTerminates ==
    /\ [](runs <= entry_count + 1)
    /\ [](Phase(pc) \in {2, 4, 6} =>
              /\ i <= entry_count
              /\ runs = Turn(pc, i) - i)
    /\ [][/\ pc \in {"schema_loop", "group_loop", "event_loop"} =>
                 /\ runs' = runs + 1
                 /\ i >= entry_count => Phase(pc') = Phase(pc) + 1
                 /\ Phase(pc') = Phase(pc) =>
                        pc' \in {"schema_incr", "group_incr", "event_incr"}
          /\ pc \in {"schema_incr", "group_incr", "event_incr"} =>
                 i' = i + 1 /\ runs' = runs /\ Phase(pc') = Phase(pc)]_vars

\* the event loop went round over placeholders of length 0, the cursor
\* still at 0, and stopped at the count check
C22_Witness ==
    /\ pc = "event_count"
    /\ entry_count >= 2
    /\ runs = entry_count + 1
    /\ i = entry_count
    /\ cursor = 0
    /\ it.res = "count"

====
